---- MODULE Spec2Model ----
(***************************************************************************)
(* A model of the Defer class (a Promise subclass whose resolve and reject *)
(* are methods of the promise itself, with events and handler slots).      *)
(*                                                                         *)
(* The controller's private fields are the variables.  A call of resolve   *)
(* or reject is a frame on a call stack: the frame's position is the next  *)
(* notification of the method body, so that a listener or a handler that   *)
(* is invoked by one call can call resolve or reject again (re-entry)      *)
(* before the first call continues.  The underlying promise, its reaction  *)
(* jobs and the microtask queue follow ECMAScript: jobs run only when the  *)
(* call stack is empty.  The event target follows the DOM standard: an     *)
(* exception of a listener is reported and the dispatch goes on.           *)
(***************************************************************************)
EXTENDS Integers, Sequences, FiniteSets, TLC

\* ---------------------------------------------------------------- bounds
\* re-entrant calls of resolve/reject made by callbacks during one client call
MaxNested == 1
\* callbacks registered on a controller at one time (listeners and handler slots)
MaxSetup == 1
\* continuations chained with then/catch/finally around one client call
MaxThen == 1
\* frames the host's call stack holds before it raises a RangeError
MaxDepth == 5

\* ---------------------------------------------------------------- values
\* JavaScript values: `undefined`, `null`, a plain value, and two future-like
\* values (thenables), one that fulfils with "v1" and one that rejects with "r1".
PlainValues == {"undefined", "null", "v1"}
Thenables == {"thenFul", "thenRej"}
Values == PlainValues \cup Thenables
Reasons == {"undefined", "r1"}
\* what a re-entrant callback passes to resolve / to reject
NestedValue == "w1"
NestedReason == "e1"

\* the outcome a thenable delivers to the promise that adopted it
ThenableOutcome(t) ==
  IF t = "thenFul" THEN [st |-> "fulfilled", v |-> "v1"]
                   ELSE [st |-> "rejected", v |-> "r1"]

\* state.ts: type State
States == {"pending", "rejected", "fulfilled"}

\* EventHandlers: the five handler slots
Slots == {"onstatechange", "onfulfilled", "onrejected", "onresolved", "onsettled"}
\* the events the class dispatches
EventTypes == {"statechange", "fulfilled", "rejected", "settled"}

\* the callback functions a client can register
Callbacks == {"f", "g"}
\* what a callback does when it is invoked: return, throw, or call
\* this.resolve(NestedValue) or this.reject(NestedReason)
CallbackActs == {"returns", "throws", "callsResolve", "callsReject"}

\* a handler-set object with no slot
EmptyHandlers == [s \in Slots |-> "none"]

\* a getter that would return #value as it is stored
NullishToUndefinedIdentity(x) == x

\* `this.#value ?? undefined` of the value getter
NullishToUndefined(x) == IF x = "null" THEN "undefined" ELSE x


\* ---------------------------------------------------------------- state
\* The fields are indexed by controller: controller 1 is the one the client
\* constructs, controller 2 the one that reset() or the factory makes.
Ctls == {1, 2}
\* handler-set objects: a controller holds one, be it an object passed to
\* the constructor or the `{}` the constructor creates itself.  Where the
\* identity of the object matters, "h1" is the first argument, "h2" the
\* second, and "h3", "h4" are the objects created for controllers 1 and 2.
HIds == {"h1", "h2", "h3", "h4"}

VARIABLES
  fresh,      \* no operation has been invoked since construction
  state,      \* #state
  value,      \* #value
  reason,     \* #reason
  executor,   \* #executor
  made,       \* how each controller was made: by whom, with which arguments
  fut,        \* the underlying promise: [st, v]
  reactions,  \* number of continuations chained on a promise not yet settled
  hid,        \* #handlers: which handler-set object the controller holds
  hsets,      \* the handler-set objects: slot -> callback or "none"
  listeners,  \* the event target's listener lists, per event type
  stack,      \* frames of the resolve/reject calls in progress, innermost last
  microtasks, \* the job queue of the host
  trace,      \* the notifications, listener calls and continuations since
              \* the client's latest resolve, reject or registration began
  callinfo    \* one record per call since then: the client's, then the nested ones

vars == <<fresh, state, value, reason, executor, made, fut, reactions, hid, hsets,
          listeners, stack, microtasks, trace, callinfo>>

\* ---------------------------------------------------------------- the underlying promise
\* a resolve function that would resolve a promise that is resolved already
NativeResolveOverwrites(f, v) ==
  IF v \in Thenables THEN [st |-> "locked", v |-> v]
  ELSE [st |-> "fulfilled", v |-> v]

\* the resolve function the Promise constructor hands to its executor: a
\* promise is resolved once; a thenable is adopted by a later job
NativeResolve(f, v) ==
  IF f.st # "pending" THEN f
  ELSE IF v \in Thenables THEN [st |-> "locked", v |-> v]
  ELSE [st |-> "fulfilled", v |-> v]

\* a reject function that would settle a promise that is settled already
NativeRejectOverwrites(f, r) == [st |-> "rejected", v |-> r]

\* the reject function the Promise constructor hands to its executor
NativeReject(f, r) ==
  IF f.st # "pending" THEN f ELSE [st |-> "rejected", v |-> r]

Settled(f) == f.st \in {"fulfilled", "rejected"}

\* the jobs the host queues when promise c goes from f to f2 with n reactions
NewJobs(c, f, f2, n) ==
  IF f.st = "pending" /\ f2.st = "locked"
    THEN <<[job |-> "adopt", c |-> c, st |-> "locked", v |-> f2.v]>>
  ELSE IF ~Settled(f) /\ Settled(f2)
    THEN [i \in 1..n |-> [job |-> "reaction", c |-> c, st |-> f2.st, v |-> f2.v]]
  ELSE <<>>

\* ---------------------------------------------------------------- construction
\* what a resolution procedure does with the (resolve, reject) it is given
ExecBehaviours == {"nothing", "resolves", "throws"}
ExecValue == "x1"
ExecError == "xerr"

\* the promise after super(...) has run the resolution procedure
AfterExecutor(beh) ==
  LET p == [st |-> "pending", v |-> "undefined"] IN
  CASE beh = "resolves" -> NativeResolve(p, ExecValue)
    [] beh = "throws"   -> NativeReject(p, ExecError)
    [] OTHER            -> p

\* a constructor whose #state would follow what the resolution procedure
\* did to the promise
ConstructorFollowsExecutor(first, second) ==
  LET beh == IF first.kind = "fn" THEN first.exec ELSE "nothing"
      p == AfterExecutor(beh)
  IN [state    |-> IF Settled(p) THEN p.st ELSE "pending",
      value    |-> IF p.st = "fulfilled" THEN p.v ELSE "undefined",
      reason   |-> IF p.st = "rejected" THEN p.v ELSE "undefined",
      executor |-> "undefined",
      fut      |-> p,
      handlers |-> IF first.kind = "object" THEN "first"
                   ELSE IF second.kind = "object" THEN "second" ELSE "own"]

\* an argument that is left out, or passed as undefined
Nullish(arg) == arg.kind \in {"absent", "undefined"}

\* a constructor that would take the second argument as the handler set
\* whenever there is one
ConstructorSecondWins(first, second) ==
  [state    |-> "pending",
   value    |-> "undefined",
   reason   |-> "undefined",
   executor |-> "undefined",
   fut      |-> AfterExecutor(IF first.kind = "fn" THEN first.exec ELSE "nothing"),
   handlers |-> IF ~Nullish(second) THEN "second"
                ELSE IF first.kind = "object" THEN "first" ELSE "own"]

\* constructor(executor, handlers): first and second are the arguments,
\* [kind |-> "absent" | "undefined" | "fn" | "object" | "array",
\*  exec |-> what a function does]
Constructor(first, second) ==
  LET \* a first argument that is not a function is dropped; if it is a plain
      \* object it becomes the handler set, else the second argument is,
      \* whatever it is, unless it is nullish
      handlers == IF first.kind = "object" THEN "first"
                  ELSE IF ~Nullish(second) THEN "second"
                  ELSE "undefined"
      beh == IF first.kind = "fn" THEN first.exec ELSE "nothing"
  IN [state    |-> "pending",
      value    |-> "undefined",
      reason   |-> "undefined",
      executor |-> "undefined",
      fut      |-> AfterExecutor(beh),
      handlers |-> IF handlers = "undefined" THEN "own" ELSE handlers]

\* an argument of the constructor or of the factory
Arg(kind, exec) == [kind |-> kind, exec |-> exec]
\* the arguments of a construction that are not kept track of
Unrecorded == Arg("-", "-")
\* the record of how a controller was made
Made(by, first, second) == [by |-> by, first |-> first, second |-> second]
NotMade == Made("none", Unrecorded, Unrecorded)
\* the controller exists
Built(c) == made[c].by # "none"
\* a promise nothing has settled
Unsettled == [st |-> "pending", v |-> "undefined"]

\* the declared overloads: (), (handlers), (executor), (executor, handlers)
FirstArgs ==
  {[kind |-> k, exec |-> "nothing"] : k \in {"absent", "object"}}
    \cup {[kind |-> "fn", exec |-> b] : b \in ExecBehaviours}
SecondArgs == {[kind |-> k, exec |-> "nothing"] : k \in {"absent", "object"}}

\* the handler-set objects a client passes to the constructor
InitialHandlerSets ==
  {EmptyHandlers, [EmptyHandlers EXCEPT !["onstatechange"] = "f"]}

Init ==
  \E first \in FirstArgs, second \in SecondArgs, h1, h2 \in InitialHandlerSets :
    LET d == Constructor(first, second) IN
    /\ first.kind # "object" => h1 = EmptyHandlers
    /\ second.kind # "object" => h2 = EmptyHandlers
    /\ first.kind # "fn" => second.kind = "absent"
    /\ fresh = TRUE
    /\ state = [c \in Ctls |-> d.state]
    /\ value = [c \in Ctls |-> d.value]
    /\ reason = [c \in Ctls |-> d.reason]
    /\ executor = [c \in Ctls |-> d.executor]
    /\ made = [c \in Ctls |-> IF c = 1 THEN Made("new", Unrecorded, Unrecorded)
                                       ELSE NotMade]
    /\ fut = [c \in Ctls |-> IF c = 1 THEN d.fut ELSE Unsettled]
    /\ reactions = [c \in Ctls |-> 0]
    /\ hid = [c \in Ctls |-> "h1"]
    /\ hsets = [h \in HIds |-> CASE h # "h1" -> EmptyHandlers
                                 [] d.handlers = "first" -> h1
                                 [] d.handlers = "second" -> h2
                                 [] OTHER -> EmptyHandlers]
    /\ listeners = [c \in Ctls |-> [t \in EventTypes |-> <<>>]]
    /\ stack = <<>>
    /\ microtasks = <<>>
    /\ trace = <<>>
    /\ callinfo = <<>>

\* ---------------------------------------------------------------- resolve and reject
\* resolve() as it would be if the handler slot were invoked before the
\* statechange event is dispatched
ResolveBodySwapped ==
  <<"onstatechange", "statechange", "fulfilled", "onfulfilled", "onresolved",
    "settled", "onsettled">>

\* the notifications of resolve(), in program order
ResolveBody ==
  <<"statechange", "onstatechange", "fulfilled", "onfulfilled", "onresolved",
    "settled", "onsettled">>

\* the notifications of reject(), in program order
RejectBody ==
  <<"statechange", "onstatechange", "rejected", "onrejected", "settled",
    "onsettled">>

\* methods that would return at once on a controller that is not pending
MethodBodyGuarded(op, cur) ==
  IF cur # "pending" THEN <<>>
  ELSE IF op = "resolve" THEN ResolveBody ELSE RejectBody

\* what a call of method op runs when the controller is in state cur: the
\* methods do not look at the state before they act
MethodBody(op, cur) == IF op = "resolve" THEN ResolveBody ELSE RejectBody

\* the state #changeState is called with
StateAfter(op) == IF op = "resolve" THEN "fulfilled" ELSE "rejected"

\* #changeState: the new #state, given the current one and the requested one
ChangeState(cur, target) == target

\* #settle: the status of the SettledEvent, from this.state
SettleStatus(cur) == IF cur = "fulfilled" THEN "fulfilled" ELSE "rejected"

\* the public getters
Value(c) == NullishToUndefined(value[c])
Reason(c) == reason[c]

Top == stack[Len(stack)]
ReplaceTop(stk, f) == [stk EXCEPT ![Len(stk)] = f]
Pop(stk) == SubSeq(stk, 1, Len(stk) - 1)
Pc(f) == IF f.pos <= Len(f.body) THEN f.body[f.pos] ELSE "return"

Entry(id, kind, a, b, cb) ==
  [call |-> id, kind |-> kind, a |-> a, b |-> b, cb |-> cb, act |-> "-"]

\* the entry of a callback that is invoked, with what the callback does
Invocation(id, kind, a, b, cb, act) == [Entry(id, kind, a, b, cb) EXCEPT !.act = act]

\* a call of c.resolve(arg) or c.reject(arg) begins; via tells who called:
\* the client, a listener or a handler of the call below it on the stack
NewFrame(id, c, op, arg, via) ==
  [id |-> id, c |-> c, op |-> op, arg |-> arg, via |-> via,
   body |-> MethodBody(op, state[c]), pos |-> 1, li |-> 0, prev |-> "-"]

NewInfo(c, op, arg) ==
  [c |-> c, op |-> op, arg |-> arg, entry |-> state[c], futEntry |-> fut[c],
   parent |-> IF stack = <<>> THEN 0 ELSE Top.id,
   from |-> IF stack = <<>> THEN 0 ELSE Len(trace) + 1,
   status |-> "running", cbThrew |-> FALSE]

\* an exception leaves the innermost call: the call ends; if a handler slot
\* had made the call, the exception leaves that handler and so the call
\* below; if a listener had made it, the event target reports it
RECURSIVE Unwind(_, _)
Unwind(stk, info) ==
  LET f == stk[Len(stk)]
      rest == Pop(stk)
      info1 == [info EXCEPT ![f.id].status = "thrown"]
  IN IF f.via = "client" THEN [stk |-> rest, info |-> info1]
     ELSE LET info2 == [info1 EXCEPT ![rest[Len(rest)].id].cbThrew = TRUE]
          IN IF f.via = "handler" THEN Unwind(rest, info2)
             ELSE [stk |-> rest, info |-> info2]

\* callbacks as they would run if the event target let the exception of a
\* listener leave dispatchEvent
RunCallbackPropagates(act, via, stk) ==
  LET f == stk[Len(stk)]
      op == IF act = "callsResolve" THEN "resolve" ELSE "reject"
      arg == IF act = "callsResolve" THEN NestedValue ELSE NestedReason
      threw == [callinfo EXCEPT ![f.id].cbThrew = TRUE]
  IN CASE act \in {"callsResolve", "callsReject"} ->
            /\ Len(callinfo) < 1 + MaxNested
            /\ stack' = Append(stk, NewFrame(Len(callinfo) + 1, f.c, op, arg, via))
            /\ callinfo' = Append(callinfo, NewInfo(f.c, op, arg))
       [] act = "throws" ->
            LET u == Unwind(stk, threw) IN stack' = u.stk /\ callinfo' = u.info
       [] OTHER -> stack' = stk /\ callinfo' = callinfo

\* a callback runs and does act; it was invoked as a listener or as a
\* handler by the innermost call, whose frame has already moved on to what
\* follows the callback
RunCallback(act, via, stk) ==
  LET f == stk[Len(stk)]
      op == IF act = "callsResolve" THEN "resolve" ELSE "reject"
      arg == IF act = "callsResolve" THEN NestedValue ELSE NestedReason
      threw == [callinfo EXCEPT ![f.id].cbThrew = TRUE]
  IN CASE act \in {"callsResolve", "callsReject"} ->
            /\ Len(callinfo) < 1 + MaxNested
            /\ stack' = Append(stk, NewFrame(Len(callinfo) + 1, f.c, op, arg, via))
            /\ callinfo' = Append(callinfo, NewInfo(f.c, op, arg))
       [] act = "throws" /\ via = "listener" ->
            stack' = stk /\ callinfo' = threw
       [] act = "throws" /\ via = "handler" ->
            LET u == Unwind(stk, threw) IN stack' = u.stk /\ callinfo' = u.info
       [] OTHER -> stack' = stk /\ callinfo' = callinfo

\* the client calls c.resolve(v); trace and callinfo start anew
Resolve(c, v) ==
  /\ stack = <<>>
  /\ Built(c)
  /\ stack' = <<NewFrame(1, c, "resolve", v, "client")>>
  /\ callinfo' = <<NewInfo(c, "resolve", v)>>
  /\ trace' = <<>>
  /\ fresh' = FALSE
  /\ UNCHANGED <<state, value, reason, executor, made, fut, reactions, hid, hsets,
                 listeners, microtasks>>

\* the client calls c.reject(r); trace and callinfo start anew
Reject(c, r) ==
  /\ stack = <<>>
  /\ Built(c)
  /\ stack' = <<NewFrame(1, c, "reject", r, "client")>>
  /\ callinfo' = <<NewInfo(c, "reject", r)>>
  /\ trace' = <<>>
  /\ fresh' = FALSE
  /\ UNCHANGED <<state, value, reason, executor, made, fut, reactions, hid, hsets,
                 listeners, microtasks>>

\* resolve and reject as they would be if they passed their argument to the
\* underlying promise before #changeState dispatches the statechange event
DispatchEventPropagatesFirst ==
  /\ stack # <<>>
  /\ Pc(Top) \in EventTypes
  /\ Top.li = 0
  /\ LET f == Top
         c == f.c
         pc == Pc(f)
         newState == IF pc = "statechange"
                       THEN ChangeState(state[c], StateAfter(f.op)) ELSE state[c]
         fut2 == CASE pc = "statechange" /\ f.op = "resolve" ->
                        NativeResolve(fut[c], f.arg)
                   [] pc = "statechange" /\ f.op = "reject" ->
                        NativeReject(fut[c], f.arg)
                   [] OTHER -> fut[c]
         ev == CASE pc = "statechange" -> Entry(f.id, pc, newState, state[c], "-")
                 [] pc = "fulfilled"   -> Entry(f.id, pc, f.arg, "fulfilled", "-")
                 [] pc = "rejected"    -> Entry(f.id, pc, f.arg, "rejected", "-")
                 [] OTHER -> Entry(f.id, pc, f.arg, SettleStatus(state[c]), "-")
         f2 == [f EXCEPT !.prev = IF pc = "statechange" THEN state[c] ELSE @,
                         !.pos = IF listeners[c][pc] = <<>> THEN @ + 1 ELSE @,
                         !.li = IF listeners[c][pc] = <<>> THEN 0 ELSE 1]
     IN /\ state' = [state EXCEPT ![c] = newState]
        /\ fut' = [fut EXCEPT ![c] = fut2]
        /\ value' = [value EXCEPT ![c] =
                       CASE pc = "fulfilled" -> f.arg
                         [] pc = "rejected"  -> "undefined"
                         [] OTHER            -> @]
        /\ reason' = [reason EXCEPT ![c] =
                       CASE pc = "fulfilled" -> "undefined"
                         [] pc = "rejected"  -> f.arg
                         [] OTHER            -> @]
        /\ microtasks' = microtasks \o NewJobs(c, fut[c], fut2, reactions[c])
        /\ reactions' = [reactions EXCEPT ![c] =
                           IF ~Settled(fut[c]) /\ Settled(fut2) THEN 0 ELSE @]
        /\ trace' = Append(trace, ev)
        /\ stack' = ReplaceTop(stack, f2)
  /\ UNCHANGED <<fresh, executor, made, hid, hsets, listeners, callinfo>>

\* the innermost call reaches a dispatchEvent: the statements before it run
\* (#changeState sets #state; resolve/reject settle the promise and record
\* value and reason; #settle reads the state), and the event is dispatched
DispatchEvent ==
  /\ stack # <<>>
  /\ Pc(Top) \in EventTypes
  /\ Top.li = 0
  /\ LET f == Top
         c == f.c
         pc == Pc(f)
         newState == IF pc = "statechange"
                       THEN ChangeState(state[c], StateAfter(f.op)) ELSE state[c]
         fut2 == CASE pc = "fulfilled" -> NativeResolve(fut[c], f.arg)
                   [] pc = "rejected"  -> NativeReject(fut[c], f.arg)
                   [] OTHER            -> fut[c]
         ev == CASE pc = "statechange" -> Entry(f.id, pc, newState, state[c], "-")
                 [] pc = "fulfilled"   -> Entry(f.id, pc, f.arg, "fulfilled", "-")
                 [] pc = "rejected"    -> Entry(f.id, pc, f.arg, "rejected", "-")
                 [] OTHER -> Entry(f.id, pc, f.arg, SettleStatus(state[c]), "-")
         f2 == [f EXCEPT !.prev = IF pc = "statechange" THEN state[c] ELSE @,
                         !.pos = IF listeners[c][pc] = <<>> THEN @ + 1 ELSE @,
                         !.li = IF listeners[c][pc] = <<>> THEN 0 ELSE 1]
     IN /\ state' = [state EXCEPT ![c] = newState]
        /\ fut' = [fut EXCEPT ![c] = fut2]
        /\ value' = [value EXCEPT ![c] =
                       CASE pc = "fulfilled" -> f.arg
                         [] pc = "rejected"  -> "undefined"
                         [] OTHER            -> @]
        /\ reason' = [reason EXCEPT ![c] =
                       CASE pc = "fulfilled" -> "undefined"
                         [] pc = "rejected"  -> f.arg
                         [] OTHER            -> @]
        /\ microtasks' = microtasks \o NewJobs(c, fut[c], fut2, reactions[c])
        /\ reactions' = [reactions EXCEPT ![c] =
                           IF ~Settled(fut[c]) /\ Settled(fut2) THEN 0 ELSE @]
        /\ trace' = Append(trace, ev)
        /\ stack' = ReplaceTop(stack, f2)
  /\ UNCHANGED <<fresh, executor, made, hid, hsets, listeners, callinfo>>

\* the event target calls the next listener of the event being dispatched
InvokeListener(act) ==
  /\ stack # <<>>
  /\ Pc(Top) \in EventTypes
  /\ Top.li >= 1
  /\ LET f == Top
         ls == listeners[f.c][Pc(f)]
         cb == ls[f.li]
         f2 == IF f.li = Len(ls) THEN [f EXCEPT !.pos = @ + 1, !.li = 0]
                                 ELSE [f EXCEPT !.li = @ + 1]
     IN /\ trace' = Append(trace, Invocation(f.id, "listener", Pc(f), "-", cb, act))
        /\ RunCallback(act, "listener", ReplaceTop(stack, f2))
  /\ UNCHANGED <<fresh, state, value, reason, executor, made, fut, reactions, hid,
                 hsets, listeners, microtasks>>

\* the arguments a handler slot is called with
HandlerArgs(slot, f) ==
  CASE slot = "onstatechange" -> [a |-> state[f.c], b |-> f.prev]
    [] slot = "onsettled"     -> [a |-> f.arg, b |-> state[f.c]]
    [] OTHER                  -> [a |-> f.arg, b |-> "-"]

\* the innermost call invokes a handler slot: the function in the slot of
\* the controller's handler set, or a no-op when the slot is empty
InvokeHandler(act) ==
  /\ stack # <<>>
  /\ Pc(Top) \in Slots
  /\ LET f == Top
         slot == Pc(f)
         cb == hsets[hid[f.c]][slot]
         args == HandlerArgs(slot, f)
         f2 == [f EXCEPT !.pos = @ + 1]
     IN /\ cb = "none" => act = "returns"
        /\ trace' = Append(trace, Invocation(f.id, slot, args.a, args.b, cb, act))
        /\ RunCallback(act, "handler", ReplaceTop(stack, f2))
  /\ UNCHANGED <<fresh, state, value, reason, executor, made, fut, reactions, hid,
                 hsets, listeners, microtasks>>

\* the innermost call has run its last statement and returns to its caller
Return ==
  /\ stack # <<>>
  /\ Pc(Top) = "return"
  /\ stack' = Pop(stack)
  /\ callinfo' = [callinfo EXCEPT ![Top.id].status = "returned"]
  /\ UNCHANGED <<fresh, state, value, reason, executor, made, fut, reactions, hid,
                 hsets, listeners, microtasks, trace>>

\* ---------------------------------------------------------------- registration
RECURSIVE Count(_, _)
\* how many elements of the finite set S satisfy the boolean function p
Count(S, p) ==
  IF S = {} THEN 0
  ELSE LET x == CHOOSE y \in S : TRUE
       IN (IF p[x] THEN 1 ELSE 0) + Count(S \ {x}, p)

RECURSIVE Sum(_, _)
Sum(S, n) ==
  IF S = {} THEN 0
  ELSE LET x == CHOOSE y \in S : TRUE IN n[x] + Sum(S \ {x}, n)

\* the callbacks registered on controller c
Registered(c) ==
  Count(Slots, [s \in Slots |-> hsets[hid[c]][s] # "none"])
    + Sum(EventTypes, [t \in EventTypes |-> Len(listeners[c][t])])

\* c.addEventListener(type, cb): the event target appends the callback,
\* unless the same callback is already registered for the type
AddListener(c, type, cb) ==
  /\ stack = <<>>
  /\ Built(c)
  /\ Registered(c) < MaxSetup
  /\ listeners' = [listeners EXCEPT ![c][type] =
                     IF \E i \in 1..Len(@) : @[i] = cb THEN @ ELSE Append(@, cb)]
  /\ fresh' = FALSE
  /\ trace' = <<>>
  /\ callinfo' = <<>>
  /\ UNCHANGED <<state, value, reason, executor, made, fut, reactions, hid, hsets,
                 stack, microtasks>>

\* what a client assigns to a handler slot: a function, null or undefined
\* ("none"), or a value that is neither ("notfn")
Assignable == Callbacks \cup {"none", "notfn"}

\* the record of a call of the setter of slot with val: it throws a
\* TypeError if val is neither a function nor nullish
SetInfo(c, slot, val) ==
  [c |-> c, op |-> slot, arg |-> val, entry |-> state[c], futEntry |-> fut[c],
   parent |-> 0, from |-> 0,
   status |-> IF val = "notfn" THEN "thrown" ELSE "returned", cbThrew |-> FALSE]

\* a setter that would keep the function a slot already holds
SetHandlerKeepsFirst(c, slot, val) ==
  /\ stack = <<>>
  /\ Built(c)
  /\ val \in Callbacks /\ hsets[hid[c]][slot] = "none" => Registered(c) < MaxSetup
  /\ hsets' = IF val = "notfn" \/ hsets[hid[c]][slot] \in Callbacks
                THEN hsets
                ELSE [hsets EXCEPT ![hid[c]][slot] = val]
  /\ fresh' = FALSE
  /\ trace' = <<>>
  /\ callinfo' = <<SetInfo(c, slot, val)>>
  /\ UNCHANGED <<state, value, reason, executor, made, fut, reactions, hid,
                 listeners, stack, microtasks>>

\* a setter that would clear the slot when it is given a value that is
\* neither a function nor nullish
SetHandlerClearsOnMismatch(c, slot, val) ==
  /\ stack = <<>>
  /\ Built(c)
  /\ val \in Callbacks /\ hsets[hid[c]][slot] = "none" => Registered(c) < MaxSetup
  /\ hsets' = [hsets EXCEPT ![hid[c]][slot] = IF val = "notfn" THEN "none" ELSE val]
  /\ fresh' = FALSE
  /\ trace' = <<>>
  /\ callinfo' = <<SetInfo(c, slot, val)>>
  /\ UNCHANGED <<state, value, reason, executor, made, fut, reactions, hid,
                 listeners, stack, microtasks>>

\* the setter of a handler slot: a function is stored in the controller's
\* handler set, null or undefined (val = "none") deletes the slot, any
\* other value throws and stores nothing
SetHandler(c, slot, val) ==
  /\ stack = <<>>
  /\ Built(c)
  /\ val \in Callbacks /\ hsets[hid[c]][slot] = "none" => Registered(c) < MaxSetup
  /\ hsets' = IF val = "notfn" THEN hsets
                               ELSE [hsets EXCEPT ![hid[c]][slot] = val]
  /\ fresh' = FALSE
  /\ trace' = <<>>
  /\ callinfo' = <<SetInfo(c, slot, val)>>
  /\ UNCHANGED <<state, value, reason, executor, made, fut, reactions, hid,
                 listeners, stack, microtasks>>

\* ---------------------------------------------------------------- continuations
\* the continuations of c that wait, are queued, or have run since the
\* latest client call began
Continuations(c) ==
  reactions[c]
    + Count(DOMAIN microtasks,
            [i \in DOMAIN microtasks |->
               microtasks[i].job = "reaction" /\ microtasks[i].c = c])
    + Count(DOMAIN trace,
            [i \in DOMAIN trace |-> trace[i].kind = "continuation"])

\* c.then(f, g): super.then registers a reaction; on a settled promise the
\* host queues the reaction job at once
Then(c) ==
  /\ stack = <<>>
  /\ Built(c)
  /\ Continuations(c) < MaxThen
  /\ IF Settled(fut[c])
       THEN /\ microtasks' = Append(microtasks,
                 [job |-> "reaction", c |-> c, st |-> fut[c].st, v |-> fut[c].v])
            /\ UNCHANGED reactions
       ELSE /\ reactions' = [reactions EXCEPT ![c] = @ + 1]
            /\ UNCHANGED microtasks
  /\ fresh' = FALSE
  /\ UNCHANGED <<state, value, reason, executor, made, fut, hid, hsets, listeners,
                 stack, trace, callinfo>>

\* a host that would run a job while a call is in progress
HostIdleAnytime == TRUE

\* jobs run to completion: the host takes the next job only when the call
\* stack is empty
HostIdle == stack = <<>>

\* the host runs the oldest job, once no call is in progress: a reaction job
\* calls the continuation with the promise's outcome; an adoption job
\* settles the promise with the outcome of the thenable it was resolved with
RunMicrotask ==
  /\ HostIdle
  /\ microtasks # <<>>
  /\ LET j == Head(microtasks)
         c == j.c
         fut2 == IF j.job = "adopt" THEN ThenableOutcome(j.v) ELSE fut[c]
     IN /\ fut' = [fut EXCEPT ![c] = fut2]
        /\ microtasks' = Tail(microtasks) \o NewJobs(c, fut[c], fut2, reactions[c])
        /\ reactions' = [reactions EXCEPT ![c] =
                           IF ~Settled(fut[c]) /\ Settled(fut2) THEN 0 ELSE @]
        /\ trace' = IF j.job = "reaction"
                      THEN Append(trace, Entry(0, "continuation", j.st, j.v, "-"))
                      ELSE trace
  /\ UNCHANGED <<fresh, state, value, reason, executor, made, hid, hsets, listeners,
                 stack, callinfo>>

\* ---------------------------------------------------------------- specification
Next ==
  \/ \E c \in Ctls, v \in Values : Resolve(c, v)
  \/ \E c \in Ctls, r \in Reasons : Reject(c, r)
  \/ DispatchEvent
  \/ \E act \in CallbackActs : InvokeListener(act)
  \/ \E act \in CallbackActs : InvokeHandler(act)
  \/ Return
  \/ \E c \in Ctls, t \in EventTypes, cb \in Callbacks : AddListener(c, t, cb)
  \/ \E c \in Ctls, s \in Slots, val \in Assignable : SetHandler(c, s, val)
  \/ \E c \in Ctls : Then(c)
  \/ RunMicrotask

Spec == Init /\ [][Next]_vars


\* ---------------------------------------------------------------- construction, factory, reset
\* the kinds of argument a construction is given, and the arguments
ArgKinds == {"absent", "fn", "object", "array"}
CtorFirstArgs ==
  {Arg(k, "nothing") : k \in ArgKinds \ {"fn"}} \cup {Arg("fn", b) : b \in ExecBehaviours}
CtorSecondArgs == {Arg(k, "nothing") : k \in ArgKinds}

\* a listener that is an object with a handleEvent method, not a function
ListenerObjects == {"obj"}

\* the `{}` the constructor creates for controller c
Own(c) == IF c = 1 THEN "h3" ELSE "h4"

\* a variant in which the handler set given second would be held
HandlerSetOfLater(c, d) ==
  CASE d.handlers = "first"  -> "h2"
    [] d.handlers = "second" -> "h2"
    [] OTHER                 -> Own(c)

\* the handler-set object controller c holds after the construction d
HandlerSetOf(c, d) ==
  CASE d.handlers = "first"  -> "h1"
    [] d.handlers = "second" -> "h2"
    [] OTHER                 -> Own(c)

\* the fields of controller c after the construction d, which leaves it
\* holding handler set h
Build(c, d, h, how) ==
  /\ state' = [state EXCEPT ![c] = d.state]
  /\ value' = [value EXCEPT ![c] = d.value]
  /\ reason' = [reason EXCEPT ![c] = d.reason]
  /\ executor' = [executor EXCEPT ![c] = d.executor]
  /\ fut' = [fut EXCEPT ![c] = d.fut]
  /\ hid' = [hid EXCEPT ![c] = h]
  /\ made' = [made EXCEPT ![c] = how]

\* new Defer(first, second)
Construct(c, first, second) ==
  /\ stack = <<>>
  /\ ~Built(c)
  /\ first.kind = "absent" => second.kind = "absent"
  /\ LET d == Constructor(first, second)
     IN Build(c, d, HandlerSetOf(c, d), Made("new", first, second))
  /\ UNCHANGED <<fresh, reactions, hsets, listeners, stack, microtasks, trace,
                 callinfo>>

\* the factory's two parameters as it passes them on: a parameter that was
\* not given is passed as undefined
Forwarded(arg) == IF arg.kind = "absent" THEN Arg("undefined", "nothing") ELSE arg

\* a factory that would pass on its first parameter only
deferFirstOnly(first, second) ==
  Constructor(Forwarded(first), Arg("undefined", "nothing"))

\* defer(executor, handlers): Reflect.construct(Defer, [executor, handlers])
defer(first, second) == Constructor(Forwarded(first), Forwarded(second))

\* the client calls defer(first, second)
CallDefer(c, first, second) ==
  /\ stack = <<>>
  /\ ~Built(c)
  /\ first.kind = "absent" => second.kind = "absent"
  /\ LET d == defer(first, second)
     IN Build(c, d, HandlerSetOf(c, d), Made("defer", first, second))
  /\ UNCHANGED <<fresh, reactions, hsets, listeners, stack, microtasks, trace,
                 callinfo>>

\* addEventListener on a listener list
AddTo(list, cb) ==
  IF \E i \in 1..Len(list) : list[i] = cb THEN list ELSE Append(list, cb)

RECURSIVE CopyInto(_, _)
\* reset()'s loop over the listeners of one event type: those whose
\* callback is a function are added to the new controller
CopyInto(src, dst) ==
  IF src = <<>> THEN dst
  ELSE CopyInto(Tail(src),
                IF Head(src) \in Callbacks THEN AddTo(dst, Head(src)) ELSE dst)

\* the arguments reset() constructs the new controller with
ResetArgs(c) ==
  IF executor[c] # "undefined"
    THEN <<Arg("fn", executor[c]), Arg("object", "nothing")>>
    ELSE <<Arg("object", "nothing"), Arg("absent", "nothing")>>

\* a reset() that would give the new controller a copy of the handler set
ResetCopiesHandlers(c, n) ==
  /\ stack = <<>>
  /\ Built(c) /\ ~Built(n)
  /\ LET args == ResetArgs(c)
         d == Constructor(args[1], args[2])
     IN Build(n, d, Own(n), Made("reset", args[1], args[2]))
  /\ hsets' = [hsets EXCEPT ![Own(n)] = hsets[hid[c]]]
  /\ listeners' = [listeners EXCEPT ![n] =
                     [t \in EventTypes |-> CopyInto(listeners[c][t], <<>>)]]
  /\ fresh' = FALSE
  /\ trace' = <<>>
  /\ callinfo' = <<>>
  /\ UNCHANGED <<reactions, stack, microtasks>>

\* a reset() that would hand on the fields of the original
ResetKeepsFields(c, n) ==
  /\ stack = <<>>
  /\ Built(c) /\ ~Built(n)
  /\ LET args == ResetArgs(c)
         d == [Constructor(args[1], args[2]) EXCEPT
                 !.state = state[c], !.value = value[c], !.reason = reason[c]]
     IN Build(n, d, hid[c], Made("reset", args[1], args[2]))
  /\ listeners' = [listeners EXCEPT ![n] =
                     [t \in EventTypes |-> CopyInto(listeners[c][t], <<>>)]]
  /\ fresh' = FALSE
  /\ trace' = <<>>
  /\ callinfo' = <<>>
  /\ UNCHANGED <<reactions, hsets, stack, microtasks>>

\* c.reset(): controller n is constructed with c's executor, if it has one,
\* and c's handler set (the same object), and c's listeners are added to it
Reset(c, n) ==
  /\ stack = <<>>
  /\ Built(c) /\ ~Built(n)
  /\ LET args == ResetArgs(c)
         d == Constructor(args[1], args[2])
     IN Build(n, d, hid[c], Made("reset", args[1], args[2]))
  /\ listeners' = [listeners EXCEPT ![n] =
                     [t \in EventTypes |-> CopyInto(listeners[c][t], <<>>)]]
  /\ fresh' = FALSE
  /\ trace' = <<>>
  /\ callinfo' = <<>>
  /\ UNCHANGED <<reactions, hsets, stack, microtasks>>

\* c.removeEventListener(type, cb)
RemoveListener(c, type, cb) ==
  /\ stack = <<>>
  /\ Built(c)
  /\ \E i \in 1..Len(listeners[c][type]) : listeners[c][type][i] = cb
  /\ listeners' = [listeners EXCEPT ![c][type] = SelectSeq(@, LAMBDA x : x # cb)]
  /\ fresh' = FALSE
  /\ trace' = <<>>
  /\ callinfo' = <<>>
  /\ UNCHANGED <<state, value, reason, executor, made, fut, reactions, hid, hsets,
                 stack, microtasks>>

\* nothing is constructed yet; the objects a client may pass as handler
\* sets hold f ("h1") and g ("h2") in the onstatechange slot
InitMake ==
  /\ fresh = TRUE
  /\ state = [c \in Ctls |-> "pending"]
  /\ value = [c \in Ctls |-> "undefined"]
  /\ reason = [c \in Ctls |-> "undefined"]
  /\ executor = [c \in Ctls |-> "undefined"]
  /\ made = [c \in Ctls |-> NotMade]
  /\ fut = [c \in Ctls |-> Unsettled]
  /\ reactions = [c \in Ctls |-> 0]
  /\ hid = [c \in Ctls |-> Own(c)]
  /\ hsets = [h \in HIds |->
                CASE h = "h1" -> [EmptyHandlers EXCEPT !["onstatechange"] = "f"]
                  [] h = "h2" -> [EmptyHandlers EXCEPT !["onstatechange"] = "g"]
                  [] OTHER    -> EmptyHandlers]
  /\ listeners = [c \in Ctls |-> [t \in EventTypes |-> <<>>]]
  /\ stack = <<>>
  /\ microtasks = <<>>
  /\ trace = <<>>
  /\ callinfo = <<>>

\* controller 1 is constructed; controller 2 is made by the factory with
\* the arguments controller 1 was constructed with, or by reset() of
\* controller 1; the controllers are settled and listeners come and go
NextMake ==
  \/ \E first \in CtorFirstArgs, second \in CtorSecondArgs : Construct(1, first, second)
  \/ Built(1) /\ CallDefer(2, made[1].first, made[1].second)
  \/ Reset(1, 2)
  \/ \E c \in Ctls : Resolve(c, "v1")
  \/ \E c \in Ctls : Reject(c, "r1")
  \/ DispatchEvent
  \/ InvokeListener("returns")
  \/ InvokeHandler("returns")
  \/ Return
  \/ \E c \in Ctls, t \in EventTypes, cb \in {"f"} \cup ListenerObjects :
       AddListener(c, t, cb)
  \/ \E c \in Ctls, t \in EventTypes, cb \in {"f"} \cup ListenerObjects :
       RemoveListener(c, t, cb)

SpecMake == InitMake /\ [][NextMake]_vars

\* ---------------------------------------------------------------- factory and construction side by side
\* controller 1 is new Defer(first, second), controller 2 is
\* defer(first, second), with the same argument objects
InitTwin ==
  \E first \in CtorFirstArgs, second \in CtorSecondArgs :
    LET d1 == Constructor(first, second)
        d2 == defer(first, second)
    IN /\ first.kind = "absent" => second.kind = "absent"
       /\ fresh = TRUE
       /\ state = <<d1.state, d2.state>>
       /\ value = <<d1.value, d2.value>>
       /\ reason = <<d1.reason, d2.reason>>
       /\ executor = <<d1.executor, d2.executor>>
       /\ made = <<Made("new", first, second), Made("defer", first, second)>>
       /\ fut = <<d1.fut, d2.fut>>
       /\ reactions = [c \in Ctls |-> 0]
       /\ hid = <<HandlerSetOf(1, d1), HandlerSetOf(2, d2)>>
       /\ hsets = [h \in HIds |->
                     CASE h = "h1" -> [EmptyHandlers EXCEPT !["onstatechange"] = "f"]
                       [] h = "h2" -> [EmptyHandlers EXCEPT !["onstatechange"] = "g"]
                       [] OTHER    -> EmptyHandlers]
       /\ listeners = [c \in Ctls |-> [t \in EventTypes |-> <<>>]]
       /\ stack = <<>>
       /\ microtasks = <<>>
       /\ trace = <<>>
       /\ callinfo = <<>>

\* the client registers the listener on both controllers
AddListenerToBoth(type, cb) ==
  /\ stack = <<>>
  /\ Registered(1) < MaxSetup
  /\ listeners' = [c \in Ctls |-> [listeners[c] EXCEPT ![type] = AddTo(@, cb)]]
  /\ fresh' = FALSE
  /\ trace' = <<>>
  /\ callinfo' = <<>>
  /\ UNCHANGED <<state, value, reason, executor, made, fut, reactions, hid, hsets,
                 stack, microtasks>>

\* the call the client made on controller 1 is over
FirstCallOver == stack = <<>> /\ Len(callinfo) = 1 /\ callinfo[1].c = 1

\* both calls of a pair are over, or none was made since the listeners changed
PairOver == stack = <<>> /\ Len(callinfo) # 1

\* the client makes on controller 2 the call it has just made on
\* controller 1; the records of the first call are kept beside it
SameCallOnSecond ==
  /\ FirstCallOver
  /\ LET op == callinfo[1].op
         arg == callinfo[1].arg
     IN /\ stack' = <<NewFrame(2, 2, op, arg, "client")>>
        /\ callinfo' = Append(callinfo, NewInfo(2, op, arg))
  /\ UNCHANGED <<fresh, state, value, reason, executor, made, fut, reactions, hid,
                 hsets, listeners, microtasks, trace>>

\* the same operations are applied to the two controllers, one after the other
NextTwin ==
  \/ \E t \in EventTypes, cb \in Callbacks : PairOver /\ AddListenerToBoth(t, cb)
  \/ PairOver /\ Resolve(1, "v1")
  \/ PairOver /\ Reject(1, "r1")
  \/ SameCallOnSecond
  \/ DispatchEvent
  \/ InvokeListener("returns")
  \/ InvokeHandler("returns")
  \/ Return

SpecTwin == InitTwin /\ [][NextTwin]_vars

\* ---------------------------------------------------------------- handler slots after reset
\* controller 1 is constructed with or without a handler set and reset()
\* makes controller 2; handler slots are assigned and cleared on both and
\* both are settled
NextShare ==
  \/ \E first \in {Arg("absent", "nothing"), Arg("object", "nothing")} :
       Construct(1, first, Arg("absent", "nothing"))
  \/ Reset(1, 2)
  \/ \E c \in Ctls, s \in Slots, val \in Assignable : SetHandler(c, s, val)
  \/ \E c \in Ctls : Resolve(c, "v1")
  \/ \E c \in Ctls : Reject(c, "r1")
  \/ DispatchEvent
  \/ InvokeHandler("returns")
  \/ Return

SpecShare == InitMake /\ [][NextShare]_vars

\* ---------------------------------------------------------------- the static methods
\* Defer.resolve(v): `new Defer()` and then resolve(v) on it; by tells
\* which static method made the controller
StaticResolve(c, v, by) ==
  /\ stack = <<>>
  /\ ~Built(c)
  /\ LET none == Arg("absent", "nothing")
         d == Constructor(none, none)
     IN Build(c, d, HandlerSetOf(c, d), Made(by, none, none))
  /\ stack' = <<NewFrame(1, c, "resolve", v, "client")>>
  /\ callinfo' = <<NewInfo(c, "resolve", v)>>
  /\ trace' = <<>>
  /\ fresh' = FALSE
  /\ UNCHANGED <<reactions, hsets, listeners, microtasks>>

\* Defer.all(values): Defer.resolve(Promise.all(values)); p is the promise
\* of the combinator, which fulfils or rejects
All(c, p) ==
  /\ p \in Thenables
  /\ StaticResolve(c, p, "all")

\* Defer.allSettled(values): Defer.resolve(Promise.allSettled(values)); the
\* promise of this combinator fulfils
AllSettled(c) ==
  /\ ThenableOutcome("thenFul").st = "fulfilled"
  /\ StaticResolve(c, "thenFul", "allSettled")

\* the static methods are called, the calls of resolve they make run, the
\* client chains continuations and the host runs its jobs
NextStatic ==
  \/ \E c \in Ctls, p \in Thenables : All(c, p)
  \/ \E c \in Ctls : AllSettled(c)
  \/ DispatchEvent
  \/ InvokeHandler("returns")
  \/ Return
  \/ \E c \in Ctls : Then(c)
  \/ RunMicrotask

SpecStatic == InitMake /\ [][NextStatic]_vars

\* ---------------------------------------------------------------- the instance check
\* the arguments of Defer[Symbol.hasInstance]: what typeof gives, whether the
\* value is null, the innermost of Defer.prototype, Promise.prototype and
\* Object.prototype on its prototype chain, and its resolve and reject
\* members (a function, another value, or none)
Members == {"function", "other", "absent"}
NonObjects ==
  {[typeof |-> t, null |-> FALSE, proto |-> "-", resolve |-> "absent", reject |-> "absent"] :
     t \in {"undefined", "number", "string", "function"}}
NullValue ==
  [typeof |-> "object", null |-> TRUE, proto |-> "-", resolve |-> "absent",
   reject |-> "absent"]
\* a controller: resolve and reject are methods of Defer.prototype
Genuine ==
  [typeof |-> "object", null |-> FALSE, proto |-> "Defer", resolve |-> "function",
   reject |-> "function"]
OtherObjects ==
  {[typeof |-> "object", null |-> FALSE, proto |-> p, resolve |-> m, reject |-> n] :
     p \in {"Promise", "Object"}, m \in Members, n \in Members}
Thats == NonObjects \cup {NullValue, Genuine} \cup OtherObjects

\* `that instanceof Promise`: Promise has no Symbol.hasInstance of its own,
\* so this is the walk along the prototype chain
InstanceofPromise(that) == that.proto \in {"Defer", "Promise"}

\* the operand to the right of `that instanceof Defer ||`
HasBothMembers(that) ==
  /\ InstanceofPromise(that)
  /\ that.resolve = "function"
  /\ that.reject = "function"

HasInstanceFrame(that) == [op |-> "hasInstance", that |-> that, inner |-> "-"]

HasInstanceInfo(that) ==
  [op |-> "hasInstance", arg |-> that, status |-> "running", result |-> "-"]

\* a call of hasInstance, or the whole evaluation, ends with result r
HasInstanceEnds(r, how) ==
  IF how = "thrown" \/ Len(stack) = 1
    THEN /\ stack' = <<>>
         /\ callinfo' = [callinfo EXCEPT ![1].status = how, ![1].result = r]
    ELSE /\ stack' = ReplaceTop(Pop(stack), [stack[Len(stack) - 1] EXCEPT !.inner = r])
         /\ UNCHANGED callinfo

\* the client evaluates `that instanceof Defer`
HasInstance(that) ==
  /\ stack = <<>>
  /\ callinfo = <<>>
  /\ stack' = <<HasInstanceFrame(that)>>
  /\ callinfo' = <<HasInstanceInfo(that)>>
  /\ fresh' = FALSE
  /\ UNCHANGED <<state, value, reason, executor, made, fut, reactions, hid,
                 hsets, listeners, microtasks, trace>>

\* the innermost call of hasInstance goes on: it returns false for what is
\* not an object or is null; else it evaluates `that instanceof Defer`,
\* which calls Defer[Symbol.hasInstance](that) again, and the host raises a
\* RangeError once the call stack is full; a call whose inner call has
\* returned goes on with the rest of the expression
HasInstanceStep ==
  /\ stack # <<>>
  /\ Top.op = "hasInstance"
  /\ LET f == Top
         that == f.that
     IN CASE that.typeof # "object" \/ that.null -> HasInstanceEnds("false", "returned")
          [] f.inner = "true" -> HasInstanceEnds("true", "returned")
          [] f.inner = "false" ->
               HasInstanceEnds(IF HasBothMembers(that) THEN "true" ELSE "false",
                               "returned")
          [] Len(stack) >= MaxDepth -> HasInstanceEnds("RangeError", "thrown")
          [] OTHER -> /\ stack' = Append(stack, HasInstanceFrame(that))
                      /\ UNCHANGED callinfo
  /\ UNCHANGED <<fresh, state, value, reason, executor, made, fut, reactions, hid,
                 hsets, listeners, microtasks, trace>>

\* the client has seen the result
HasInstanceDone ==
  /\ stack = <<>>
  /\ callinfo # <<>>
  /\ callinfo' = <<>>
  /\ UNCHANGED <<fresh, state, value, reason, executor, made, fut, reactions, hid,
                 hsets, listeners, stack, microtasks, trace>>

InitIs ==
  /\ fresh = TRUE
  /\ state = [c \in Ctls |-> "pending"]
  /\ value = [c \in Ctls |-> "undefined"]
  /\ reason = [c \in Ctls |-> "undefined"]
  /\ executor = [c \in Ctls |-> "undefined"]
  /\ made = [c \in Ctls |-> Made("new", Unrecorded, Unrecorded)]
  /\ fut = [c \in Ctls |-> Unsettled]
  /\ reactions = [c \in Ctls |-> 0]
  /\ hid = [c \in Ctls |-> Own(c)]
  /\ hsets = [h \in HIds |-> EmptyHandlers]
  /\ listeners = [c \in Ctls |-> [t \in EventTypes |-> <<>>]]
  /\ stack = <<>>
  /\ microtasks = <<>>
  /\ trace = <<>>
  /\ callinfo = <<>>

NextIs ==
  \/ \E that \in Thats : HasInstance(that)
  \/ HasInstanceStep
  \/ HasInstanceDone

SpecIs == InitIs /\ [][NextIs]_vars

\* ---------------------------------------------------------------- reading the trace
IsPrefix(p, q) == Len(p) <= Len(q) /\ SubSeq(q, 1, Len(p)) = p

\* the kinds of the notifications (events and handler slots) of call k, in order
Notifications(k) ==
  LET sel == SelectSeq(trace, LAMBDA e : e.call = k /\ e.kind \in EventTypes \cup Slots)
  IN [i \in 1..Len(sel) |-> sel[i].kind]

\* the trace entries of the given kind
Entries(kind) == SelectSeq(trace, LAMBDA e : e.kind = kind)

\* the client's call is the only one so far and none of its callbacks threw
Undisturbed == Len(callinfo) = 1 /\ ~callinfo[1].cbThrew

ClientCall(op, entry) ==
  /\ callinfo # <<>>
  /\ callinfo[1].op = op
  /\ callinfo[1].entry \in entry

\* ---------------------------------------------------------------- claims

C2_TerminalStateIsKept ==
  [][\A c \in Ctls : state[c] # "pending" => state'[c] = state[c]]_vars

\* C3: every statechange event carries oldState = pending and newState = the
\* outcome of the call that dispatched it, and each call dispatches exactly one.
C3_StateChangeFromPending ==
  /\ \A i \in DOMAIN trace :
       trace[i].kind = "statechange" =>
         /\ trace[i].b = "pending"
         /\ trace[i].a = IF callinfo[trace[i].call].op = "resolve"
                           THEN "fulfilled" ELSE "rejected"
  /\ \A k \in DOMAIN callinfo :
       callinfo[k].op \in {"resolve", "reject"} /\ callinfo[k].status = "returned" =>
         Len(SelectSeq(trace, LAMBDA e : e.call = k /\ e.kind = "statechange")) = 1


\* what a continuation chained on the controller has received: the entries
\* of the continuations that have run, as <<state, value or reason>>
Received ==
  LET sel == Entries("continuation")
  IN {<<sel[i].a, sel[i].b>> : i \in 1..Len(sel)}

C6_FutureAgreesWithController ==
  \A c \in Ctls :
    stack = <<>> =>
      /\ state[c] = "fulfilled" =>
           \/ fut[c] = [st |-> "fulfilled", v |-> value[c]]
           \/ fut[c].st = "locked" /\ fut[c].v = value[c]
      /\ state[c] = "rejected" => fut[c] = [st |-> "rejected", v |-> reason[c]]
      /\ state[c] = "pending" => fut[c].st = "pending"


\* C7: resolve or reject on a controller that is already fulfilled or
\* rejected raises no error and runs the complete notification sequence
\* again: statechange, outcome and settled events, and the handler slots.
C7_SettledControllerNotifiesAgain ==
  \A op \in {"resolve", "reject"} :
    ClientCall(op, {"fulfilled", "rejected"}) /\ Undisturbed =>
      LET want == IF op = "resolve"
                    THEN <<"statechange", "onstatechange", "fulfilled", "onfulfilled",
                           "onresolved", "settled", "onsettled">>
                    ELSE <<"statechange", "onstatechange", "rejected", "onrejected",
                           "settled", "onsettled">>
      IN /\ callinfo[1].status # "thrown"
         /\ IsPrefix(Notifications(1), want)
         /\ callinfo[1].status = "returned" => Notifications(1) = want

\* a reject call on a fulfilled controller has returned and has invoked a
\* registered handler
C7_Witness ==
  /\ ClientCall("reject", {"fulfilled"}) /\ Undisturbed
  /\ callinfo[1].status = "returned"
  /\ \E i \in DOMAIN trace : trace[i].kind \in Slots /\ trace[i].cb = "f"

\* C8: wherever the controller can be observed, value is defined only if
\* state is fulfilled and reason is defined only if state is rejected.
C8_ValueAndReasonFollowState ==
  \A c \in Ctls :
    /\ Value(c) # "undefined" => state[c] = "fulfilled"
    /\ Reason(c) # "undefined" => state[c] = "rejected"

\* C9: a freshly constructed controller, whatever the overload and whatever
\* the resolution procedure did, has state pending, value and reason
\* undefined, and no notification has fired.
C9_FreshControllerIsPending ==
  fresh =>
    \A c \in Ctls :
      /\ state[c] = "pending"
      /\ Value(c) = "undefined"
      /\ Reason(c) = "undefined"
      /\ trace = <<>>

\* a fresh controller whose resolution procedure has settled the future and
\* which was given a handler set
C9_Witness ==
  /\ fresh
  /\ Settled(fut[1])
  /\ hsets[hid[1]]["onstatechange"] = "f"

\* C10: every notification of a resolve or reject call has completed before a
\* continuation chained on the controller runs: a continuation runs with no
\* call in progress, and no notification of the call follows it.
C10_ContinuationsAfterNotifications ==
  \A i \in DOMAIN trace :
    trace[i].kind = "continuation" =>
      /\ \A k \in DOMAIN callinfo : callinfo[k].status # "running"
      /\ \A j \in DOMAIN trace : j > i => trace[j].kind = "continuation"

\* a continuation chained before the call has run after the seven
\* notifications of a resolve call
C10_Witness ==
  /\ ClientCall("resolve", {"pending"})
  /\ Len(trace) >= 8
  /\ trace[Len(trace)].kind = "continuation"


\* ---------------------------------------------------------------- claims C11 to C20

\* the calls of resolve and reject among the calls recorded
SettleCalls == {k \in DOMAIN callinfo : callinfo[k].op \in {"resolve", "reject"}}

\* the callback invoked at trace entry i raised an exception: it threw, or
\* the call of resolve/reject it made ended with an exception
Raised(i) ==
  /\ trace[i].kind \in Slots \cup {"listener"}
  /\ \/ trace[i].act = "throws"
     \/ \E n \in DOMAIN callinfo : callinfo[n].from = i /\ callinfo[n].status = "thrown"

\* no notification of call k follows trace entry i
NothingLater(k, i) ==
  \A j \in DOMAIN trace :
    j > i /\ trace[j].call = k => trace[j].kind \notin EventTypes \cup Slots

EventOf(slot) ==
  CASE slot = "onstatechange" -> {"statechange"}
    [] slot = "onsettled"     -> {"settled"}
    [] slot = "onrejected"    -> {"rejected"}
    [] OTHER                  -> {"fulfilled"}

\* the trace entries of call k that are invocations of handler slot s
SlotCalls(k, s) == SelectSeq(trace, LAMBDA e : e.call = k /\ e.kind = s)

\* C12: a slot holds what was assigned to it last: an assignment of a
\* function or of null/undefined replaces the slot's content and nothing
\* else, and nothing but an assignment changes a slot; a notification calls
\* what the slot holds, once, a no-op if the slot is empty, after the
\* structured event of the occurrence has been dispatched.
C12_SlotHoldsLatestAssignment ==
  /\ [][Len(callinfo') = 1 /\ callinfo'[1].op \in Slots
          /\ callinfo'[1].status = "returned" =>
            hsets'[hid[callinfo'[1].c]] =
              [hsets[hid[callinfo'[1].c]] EXCEPT ![callinfo'[1].op] = callinfo'[1].arg]]_vars
  /\ [][hsets' # hsets => Len(callinfo') = 1 /\ callinfo'[1].op \in Slots]_vars
  /\ [](\A i \in DOMAIN trace :
         trace[i].kind \in Slots =>
           LET k == trace[i].call IN
           /\ trace[i].cb = hsets[hid[callinfo[k].c]][trace[i].kind]
           /\ Len(SlotCalls(k, trace[i].kind)) = 1
           /\ \E j \in 1..(i - 1) :
                trace[j].call = k /\ trace[j].kind \in EventOf(trace[i].kind))

\* the function g, which only an assignment can have put into a slot, has
\* been called by a reject call that returned
C12_Witness ==
  /\ ClientCall("reject", States)
  /\ callinfo[1].status = "returned"
  /\ \E i \in DOMAIN trace : trace[i].kind = "onrejected" /\ trace[i].cb = "g"


\* C13: assigning a value that is neither a function nor null/undefined to
\* any of the five handler slots raises an error to the assigner and changes
\* no slot (the assigned one keeps its callback) and not state, value or
\* reason.
C13_MismatchRaisesAndChangesNothing ==
  [][Len(callinfo') = 1 /\ callinfo'[1].op \in Slots /\ callinfo'[1].arg = "notfn" =>
       /\ callinfo'[1].status = "thrown"
       /\ UNCHANGED <<hsets, state, value, reason>>]_vars

\* such an assignment to a slot that holds a function has raised, on a
\* fulfilled controller
C13_Witness ==
  /\ Len(callinfo) = 1 /\ callinfo[1].op \in Slots
  /\ callinfo[1].arg = "notfn" /\ callinfo[1].status = "thrown"
  /\ hsets[hid[1]][callinfo[1].op] \in Callbacks
  /\ state[1] = "fulfilled" /\ Value(1) = "v1"


\* C14: every handler-slot call gets the payload of the structured event
\* dispatched for the same occurrence: onstatechange (newState, oldState),
\* onsettled (valueOrReason, status), the others the value or the reason.
C14_HandlerGetsEventPayload ==
  \A i \in DOMAIN trace :
    trace[i].kind \in Slots =>
      \A j \in 1..(i - 1) :
        trace[j].call = trace[i].call /\ trace[j].kind \in EventOf(trace[i].kind) =>
          /\ trace[i].a = trace[j].a
          /\ trace[i].kind \in {"onstatechange", "onsettled"} => trace[i].b = trace[j].b


\* C15: reset() returns a new controller that is pending with value and
\* reason undefined and leaves the original's state, value, reason and
\* listeners as they are; afterwards the original's state, value and reason
\* change only in calls of resolve/reject on the original itself, never
\* when the new controller is settled.
C15_ResetLeavesOriginal ==
  /\ [][made[2].by = "none" /\ made'[2].by = "reset" =>
          /\ state'[2] = "pending"
          /\ NullishToUndefined(value'[2]) = "undefined"
          /\ reason'[2] = "undefined"
          /\ state'[1] = state[1] /\ value'[1] = value[1] /\ reason'[1] = reason[1]
          /\ listeners'[1] = listeners[1]]_vars
  /\ [][made[2].by = "reset"
          /\ <<state'[1], value'[1], reason'[1]>> # <<state[1], value[1], reason[1]>> =>
            stack # <<>> /\ Top.c = 1]_vars

\* the original was fulfilled, and the controller reset() returned has been
\* rejected by a call that returned
C15_Witness ==
  /\ made[2].by = "reset"
  /\ state[1] = "fulfilled" /\ value[1] = "v1"
  /\ state[2] = "rejected"
  /\ callinfo # <<>> /\ callinfo[1].c = 2 /\ callinfo[1].status = "returned"

\* C16: reset() registers every listener of the original on the new
\* controller and leaves the original's registrations; afterwards adding or
\* removing a listener on one controller does not change the other's.
C16_ResetCopiesEveryListener ==
  /\ [][made[2].by = "none" /\ made'[2].by = "reset" =>
          listeners'[2] = listeners[1] /\ listeners'[1] = listeners[1]]_vars
  /\ [][made[2].by = "reset" =>
          /\ listeners'[1] # listeners[1] => listeners'[2] = listeners[2]
          /\ listeners'[2] # listeners[2] => listeners'[1] = listeners[1]]_vars

\* C17: a controller that reset() returns was constructed with the
\* resolution procedure the original was constructed with: if that was a
\* custom procedure, it has run again and settled the new controller's
\* future as it did the original's.
C17_ResetRunsProcedureAgain ==
  made[1].by = "new" /\ made[2].by = "reset" /\ made[1].first.kind = "fn" =>
    /\ made[2].first = made[1].first
    /\ made[1].first.exec # "nothing" => fut[2] = AfterExecutor(made[1].first.exec)

\* C18: a first argument that is a plain object becomes the handler set and
\* the resolution procedure is a no-op; a first argument that is a function
\* is run during construction, and the second argument, if there is one,
\* becomes the handler set; for all kinds of the two arguments.
C18_ConstructionDisambiguates ==
  \A c \in Ctls :
    made[c].by = "new" =>
      /\ made[c].first.kind = "object" =>
           /\ hid[c] = "h1"
           /\ fresh => fut[c] = Unsettled
      /\ made[c].first.kind = "fn" =>
           /\ fresh => fut[c] = AfterExecutor(made[c].first.exec)
           /\ made[c].second.kind # "absent" => hid[c] = "h2"

\* a controller constructed with a procedure that throws and an array
C18_Witness ==
  /\ fresh
  /\ made[1] = Made("new", Arg("fn", "throws"), Arg("array", "nothing"))
  /\ fut[1] = [st |-> "rejected", v |-> ExecError]

\* C19 as stated: of two handler sets given to the constructor, the second
\* is the one whose callbacks the notifications call.
C19_LaterHandlerSetWins ==
  \A c \in Ctls :
    made[c].by = "new" /\ made[c].first.kind = "object"
      /\ made[c].second.kind = "object" =>
        /\ hid[c] = "h2"
        /\ \A i \in DOMAIN trace :
             trace[i].kind = "onstatechange" /\ callinfo[trace[i].call].c = c =>
               trace[i].cb = "g"

\* C19 amended: of two handler sets given to the constructor, the first is
\* the one whose callbacks the notifications call; the second is ignored.
C19_FirstHandlerSetWins ==
  \A c \in Ctls :
    made[c].by = "new" /\ made[c].first.kind = "object"
      /\ made[c].second.kind = "object" =>
        /\ hid[c] = "h1"
        /\ \A i \in DOMAIN trace :
             trace[i].kind = "onstatechange" /\ callinfo[trace[i].call].c = c =>
               trace[i].cb = "f"

\* a controller constructed with two handler sets has been resolved and
\* the call has invoked the onstatechange slot
C19_Witness ==
  /\ made[1] = Made("new", Arg("object", "nothing"), Arg("object", "nothing"))
  /\ ClientCall("resolve", {"pending"}) /\ callinfo[1].c = 1
  /\ callinfo[1].status = "returned"
  /\ \E i \in DOMAIN trace : trace[i].kind = "onstatechange"

\* what call k did, without the call's number
Observed(k) ==
  LET sel == SelectSeq(trace, LAMBDA e : e.call = k)
  IN [i \in 1..Len(sel) |-> [sel[i] EXCEPT !.call = 0]]

\* C20: a controller the factory returns and one constructed directly with
\* the same arguments begin with the same state, value, reason, future,
\* listeners and handler set (the same object, or an empty one of their
\* own); and when the same operations have been applied to both, every
\* call has ended the same way with the same notifications, with the same
\* arguments and callbacks, in the same order, and has left the same
\* state, value, reason and future.
C20_FactoryEqualsConstruction ==
  made[1].by = "new" /\ made[2].by = "defer"
    /\ made[2].first = made[1].first /\ made[2].second = made[1].second =>
      /\ \/ hid[2] = hid[1]
         \/ /\ hid[1] = Own(1) /\ hid[2] = Own(2)
            /\ hsets[hid[2]] = hsets[hid[1]]
      /\ executor[2] = executor[1]
      /\ PairOver =>
           /\ state[2] = state[1] /\ value[2] = value[1] /\ reason[2] = reason[1]
           /\ fut[2] = fut[1]
           /\ listeners[2] = listeners[1]
      /\ PairOver /\ Len(callinfo) = 2 =>
           /\ callinfo[2].status = callinfo[1].status
           /\ callinfo[2].entry = callinfo[1].entry
           /\ Observed(2) = Observed(1)

\* the factory was called with a procedure that resolves and a handler set;
\* both controllers were then rejected, and the handler set was notified
C20_Witness ==
  /\ made[2] = Made("defer", Arg("fn", "resolves"), Arg("object", "nothing"))
  /\ made[1].by = "new"
  /\ PairOver /\ Len(callinfo) = 2
  /\ callinfo[2].op = "reject" /\ state[2] = "rejected"
  /\ \E i \in DOMAIN trace : trace[i].call = 2 /\ trace[i].kind = "onstatechange"

\* ---------------------------------------------------------------- claims C21 to C29
\* an evaluation of the instance check that is over
Evaluated ==
  /\ callinfo # <<>>
  /\ callinfo[1].op = "hasInstance"
  /\ callinfo[1].status # "running"

\* C21: the instance check gives true for a controller and for a future
\* that has function-typed resolve and reject members, and false for every
\* other argument.
C21_InstanceCheck ==
  Evaluated =>
    LET that == callinfo[1].arg
    IN callinfo[1].result =
         IF that.typeof = "object" /\ ~that.null
              /\ (that.proto = "Defer" \/ HasBothMembers(that))
           THEN "true" ELSE "false"

\* C29: the instance check ends with a boolean for every argument, and its
\* calls of itself do not fill the call stack.
C29_InstanceCheckGivesBoolean ==
  /\ Evaluated => callinfo[1].result \in {"true", "false"}
  /\ stack # <<>> /\ Top.op = "hasInstance" => Len(stack) < MaxDepth

\* C22: the state of a controller that all() or allSettled() returned is
\* fulfilled only when the combinator has fulfilled the underlying future,
\* its value is then the combinator's result, and when the combinator has
\* rejected the state is rejected with the combinator's reason.
C22_ControllerFollowsCombinator ==
  \A c \in Ctls :
    made[c].by \in {"all", "allSettled"} =>
      /\ state[c] = "fulfilled" => fut[c].st = "fulfilled" /\ Value(c) = fut[c].v
      /\ fut[c].st = "rejected" => state[c] = "rejected" /\ Reason(c) = fut[c].v

C24_SettledPayloadFollowsCall ==
  \A i \in DOMAIN trace :
    trace[i].kind \in {"settled", "onsettled"} =>
      /\ trace[i].a = callinfo[trace[i].call].arg
      /\ trace[i].b = StateAfter(callinfo[trace[i].call].op)

\* the callbacks a call runs for its statechange: the listeners of the
\* event and the onstatechange handler
OnStateChange(e) ==
  \/ e.kind = "onstatechange"
  \/ e.kind = "listener" /\ e.a = "statechange"

\* C25: in a resolve(v) call the underlying future has been resolved with v
\* by the time the first statechange listener or the onstatechange handler
\* runs.
C25_FutureResolvedBeforeStateChange ==
  \A i \in DOMAIN trace :
    OnStateChange(trace[i]) /\ trace[i].call > 0
      /\ callinfo[trace[i].call].op = "resolve" =>
        fut[callinfo[trace[i].call].c].st # "pending"

\* C26: a call sets state to its terminal value before its first
\* notification, which is the statechange event; in a call on a pending
\* controller that is not re-entered the underlying future, value and
\* reason are as they were until the onstatechange handler has returned;
\* and when the onstatechange handler throws in such a call, the call ends
\* with an exception, state is the terminal value, value and reason are
\* undefined and the underlying future is as it was before the call.
C26_NotAtomicUnderThrow ==
  /\ \A k \in DOMAIN callinfo :
       callinfo[k].op \in {"resolve", "reject"} =>
         LET sel == SelectSeq(trace, LAMBDA e : e.call = k)
         IN sel # <<>> =>
              /\ sel[1].kind = "statechange"
              /\ sel[1].a = StateAfter(callinfo[k].op)
  /\ \A op \in {"resolve", "reject"} :
       ClientCall(op, {"pending"}) /\ Len(callinfo) = 1 =>
         LET c == callinfo[1].c
             handled == \E i \in DOMAIN trace :
                          trace[i].kind = "onstatechange" /\ trace[i].act = "returns"
             threw == \E i \in DOMAIN trace :
                        trace[i].kind = "onstatechange" /\ trace[i].act = "throws"
         IN /\ ~handled =>
                 /\ fut[c] = callinfo[1].futEntry
                 /\ value[c] = "undefined" /\ reason[c] = "undefined"
            /\ trace # <<>> /\ ~handled => state[c] = StateAfter(op)
            /\ threw => callinfo[1].status = "thrown"

\* the onstatechange handler has thrown in resolve("v1") on a pending
\* controller whose future nothing had settled
C26_Witness ==
  /\ ClientCall("resolve", {"pending"}) /\ Len(callinfo) = 1
  /\ callinfo[1].arg = "v1"
  /\ callinfo[1].status = "thrown"
  /\ \E i \in DOMAIN trace : trace[i].kind = "onstatechange" /\ trace[i].act = "throws"
  /\ state[1] = "fulfilled" /\ Value(1) = "undefined"
  /\ fut[1] = Unsettled

\* C27: state, value and reason of a controller change only in steps of a
\* resolve or reject call on that controller; a controller on which nothing
\* was invoked since its construction is pending with value and reason
\* undefined and no notification, whatever its resolution procedure did to
\* the underlying future; and as long as state is pending, value and reason
\* are undefined, no notification has fired, and a continuation is given
\* the outcome the procedure gave the future.
C27_FieldsChangeOnlyInOwnMethods ==
  /\ [][\A c \in Ctls :
          <<state'[c], value'[c], reason'[c]>> # <<state[c], value[c], reason[c]>> =>
            /\ stack # <<>>
            /\ Top.c = c /\ Top.op \in {"resolve", "reject"}]_vars
  /\ [](fresh => state[1] = "pending" /\ trace = <<>>)
  /\ [](state[1] = "pending" =>
          /\ Value(1) = "undefined" /\ Reason(1) = "undefined"
          /\ \A i \in DOMAIN trace :
               /\ trace[i].kind = "continuation"
               /\ trace[i].a = fut[1].st /\ trace[i].b = fut[1].v
               /\ trace[i].b \in {ExecValue, ExecError})

\* the resolution procedure resolved the future at construction: the
\* controller is still pending and a continuation has been given the value
C27_Witness ==
  /\ state[1] = "pending" /\ Value(1) = "undefined"
  /\ fut[1] = [st |-> "fulfilled", v |-> ExecValue]
  /\ \E i \in DOMAIN trace :
       trace[i].kind = "continuation" /\ trace[i].a = "fulfilled"
         /\ trace[i].b = ExecValue

====
